---------------------------- MODULE Spec2Model ----------------------------
(***************************************************************************)
(* State machine of the TheaterTicketSystem component                      *)
(* (src/unnamed/part_000).  The component state is the set of useState     *)
(* cells; the operations are the event handlers the view wires to its      *)
(* buttons and inputs, and the continuations of the two asynchronous       *)
(* functions (fetchData, handleConfirmBooking) after their awaits.         *)
(*                                                                         *)
(* JavaScript runs handlers and continuations to completion on one         *)
(* thread, so every action below is one atomic step.  Neither async        *)
(* function reads or writes component state between its first await        *)
(* (fetch) and its second (response.json()/response.text()), so the two    *)
(* awaits are one suspension point.  A continuation sees the component     *)
(* state through the values its closure captured when the handler was      *)
(* invoked, except where it uses a functional updater.                     *)
(***************************************************************************)
EXTENDS Integers, Sequences, FiniteSets, Bags, TLC

----------------------------------------------------------------------------
(* Program constants *)

Capacity == 80
RowWidth == 10

(* Bound: the number of asynchronous tasks (requests in flight and pending  *)
(* timers) that exist at the same time.                                     *)
MaxAsync == 2

\* names of the re-fetches: a timer and the GET it starts have the same name
TaskIds == 1..MaxAsync

\* the longest list of records markBookedSeats is run on, on its own
MaxUsers == 3

----------------------------------------------------------------------------
(* Values *)

\* null / undefined and a present value, for nullable cells
Null == <<>>
Some(x) == <<x>>

FetchErrorMsg == "Failed to load seat data. Using demo data instead."

EmptyForm == [name |-> "", email |-> "", phone |-> "", payment |-> "card"]

\* the values the user types or selects, per form field (of the four
\* payment options the user keeps the preselected one)
FieldValues ==
  [name |-> {"", "Alice"}, email |-> {"", "a@x.com"},
   phone |-> {"", "555"}, payment |-> {"card"}]

FieldNames == {"name", "email", "phone", "payment"}

\* the seat the user clicks on
ClickSeatIds == {5}

----------------------------------------------------------------------------
(* Seat Model Builder and Reconciliation Function *)

NewSeat(i) ==
  [id |-> i, row |-> 65 + (i \div RowWidth), number |-> (i % RowWidth) + 1,
   status |-> "available", selectedBy |-> Null]

generateAllSeats == [k \in 1..Capacity |-> NewSeat(k - 1)]

\* Array.prototype.findIndex: the first index whose seat has the id, 0 for -1
FindIndex(ss, seatId) ==
  LET hits == {k \in DOMAIN ss : ss[k].id = seatId}
  IN IF hits = {} THEN 0 ELSE CHOOSE k \in hits : \A j \in hits : k <= j

\* MarkOne without the test of user.seatBooked
MarkOneAnyRecord(ss, user) ==
  LET seatIndex == FindIndex(ss, user.seatId)
  IN IF seatIndex # 0
       THEN [ss EXCEPT ![seatIndex] =
               [@ EXCEPT !.status = "booked", !.selectedBy = Some(user.name)]]
       ELSE ss

\* the body of the forEach callback of markBookedSeats
MarkOne(ss, user) ==
  LET seatIndex == FindIndex(ss, user.seatId)
  IN IF user.seatBooked /\ seatIndex # 0
       THEN [ss EXCEPT ![seatIndex] =
               [@ EXCEPT !.status = "booked", !.selectedBy = Some(user.name)]]
       ELSE ss

RECURSIVE markBookedSeats(_, _)
markBookedSeats(ss, us) ==
  IF us = <<>> THEN ss
  ELSE markBookedSeats(MarkOne(ss, Head(us)), Tail(us))

----------------------------------------------------------------------------
(* What the external service answers *)

\* A BookingRecord as the service reports it (createdAt, a timestamp the
\* component only displays, is left out).
User(id, name, booked, seatId) ==
  [_id |-> id, name |-> name, email |-> "u@x.com", phone |-> "111",
   payment |-> "cash", seatBooked |-> booked, seatId |-> seatId]

Bob0 == User("b1", "Bob", TRUE, 0)
Carol0 == User("c1", "Carol", TRUE, 0)
Carol5 == User("c2", "Carol", TRUE, 5)
Dan5 == User("d1", "Dan", FALSE, 5)
Eve99 == User("e1", "Eve", TRUE, 99)

\* JSON values: an array of elements (Null is a JSON null element), an
\* object with optional data and users properties, or a primitive.
JArray(items) == [kind |-> "array", items |-> items, data |-> Null, users |-> Null]
JObject(d, u) == [kind |-> "object", items |-> <<>>, data |-> d, users |-> u]
JPrim(kind) == [kind |-> kind, items |-> <<>>, data |-> Null, users |-> Null]

Wrap(us) == [k \in DOMAIN us |-> Some(us[k])]

UserLists ==
  { <<>>, <<Carol5>>, <<Bob0, Dan5, Carol0, Eve99>> }

\* bodies of the three accepted shapes
ListBodies ==
  {JArray(Wrap(us)) : us \in UserLists}
    \cup {JObject(Some(JArray(Wrap(<<Carol5>>))), Null),
          JObject(Null, Some(JArray(Wrap(<<Carol5>>)))),
          JObject(Some(JPrim("string")), Some(JArray(Wrap(<<Carol5>>))))}

\* bodies of any other shape
OtherBodies ==
  {JObject(Null, Null), JObject(Some(JPrim("number")), Null),
   JPrim("number"), JPrim("string"), JPrim("null")}

\* a list with a JSON null among its elements; text that is not JSON
BrokenBodies == {JArray(<<Some(Bob0), Null>>), JPrim("invalid")}

NoBody == JPrim("none")

GetResponses ==
  {[status |-> "ok", body |-> b] : b \in ListBodies \cup OtherBodies \cup BrokenBodies}
    \cup {[status |-> "http_error", body |-> NoBody],
          [status |-> "network_error", body |-> NoBody]}

\* answers to POST /confirm-booking: the body is a JSON object with or
\* without an _id, JSON null, or not JSON
PostResponses ==
  {[status |-> "ok", kind |-> "object", id |-> Some("srv1")],
   [status |-> "ok", kind |-> "object", id |-> Null],
   [status |-> "ok", kind |-> "null", id |-> Null],
   [status |-> "ok", kind |-> "invalid", id |-> Null],
   [status |-> "http_error", kind |-> "text", id |-> Null],
   [status |-> "network_error", kind |-> "none", id |-> Null]}

----------------------------------------------------------------------------
(* fetchData: decoding the response (the try block up to setBookedUsers) *)

\* data.key in JavaScript, for a data that is not null: undefined (Null)
\* unless data is an object holding the key
Prop(data, key) == IF data.kind = "object" THEN data[key] ELSE Null

IsArray(opt) == opt # Null /\ opt[1].kind = "array"

\* lines 116-126: the elements of the list the body carries
UsersData(data) ==
  IF data.kind = "array" THEN data.items
  ELSE IF IsArray(Prop(data, "data")) THEN Prop(data, "data")[1].items
  ELSE IF IsArray(Prop(data, "users")) THEN Prop(data, "users")[1].items
  ELSE <<>>

\* the exits of the try block by exception: fetch rejects, !response.ok,
\* response.json() rejects, data.data on null, user.seatBooked on null
FetchThrows(resp) ==
  \/ resp.status # "ok"
  \/ resp.body.kind = "invalid"
  \/ resp.body.kind = "null"
  \/ \E k \in DOMAIN UsersData(resp.body) : UsersData(resp.body)[k] = Null

\* line 129: usersData.filter(user => user.seatBooked)
BookedUsersData(resp) ==
  LET items == UsersData(resp.body)
      us == [k \in DOMAIN items |-> items[k][1]]
      Confirmed(u) == u.seatBooked
  IN SelectSeq(us, Confirmed)

----------------------------------------------------------------------------
(* Component state *)

VARIABLES
  seats,         \* useState<Seat[]>
  selectedSeat,  \* useState<Seat | null>: Null or Some(seat)
  showModal,
  loading,
  refreshing,
  error,         \* useState<string | null>: Null or Some(message)
  bookedUsers,   \* useState<BookedUser[]>
  formData,
  bookings,      \* handleConfirmBooking calls awaiting the POST response:
                 \* the bag of their closures (the seats, selectedSeat and
                 \* formData of the render whose handler was invoked)
  timers,        \* task ids of pending setTimeout(() => fetchData(), 500)
  fetches,       \* task ids of fetchData calls awaiting the GET response
  alertMsg,      \* the alert() the latest step raised, "none" if none
  allSeats,      \* markBookedSeats, run on its own: the caller's array
  users,         \* its second argument
  updatedSeats,  \* its local array (line 62)
  userIndex,     \* the position of its forEach in users
  pc             \* "idle", "call", "loop" or "done"

vars ==
  <<seats, selectedSeat, showModal, loading, refreshing, error, bookedUsers,
    formData, bookings, timers, fetches, alertMsg,
    allSeats, users, updatedSeats, userIndex, pc>>

\* the frame of a call of markBookedSeats run on its own
recon == <<allSeats, users, updatedSeats, userIndex, pc>>

\* the cells of useState
cells ==
  <<seats, selectedSeat, showModal, loading, refreshing, error, bookedUsers,
    formData>>

\* requests in flight and timers pending
async == <<bookings, timers, fetches>>

\* the tasks that exist: POSTs in flight, pending timers, GETs in flight
Pending == BagCardinality(bookings) + Cardinality(timers) + Cardinality(fetches)

FreeIds == TaskIds \ (timers \cup fetches)

NextId == CHOOSE k \in FreeIds : \A j \in FreeIds : k <= j

\* lines 31-43, and the mount effect of lines 157-159, whose fetchData()
\* sets loading (already true) and sends the first GET
Init ==
  /\ seats = <<>>
  /\ selectedSeat = Null
  /\ showModal = FALSE
  /\ loading = TRUE
  /\ refreshing = FALSE
  /\ error = Null
  /\ bookedUsers = <<>>
  /\ formData = EmptyForm
  /\ bookings = EmptyBag
  /\ timers = {}
  /\ fetches = {1}
  /\ alertMsg = "none"
  /\ allSeats = <<>>
  /\ users = <<>>
  /\ updatedSeats = <<>>
  /\ userIndex = 1
  /\ pc = "idle"

----------------------------------------------------------------------------
(* What the view renders *)

\* line 328: the seat grid is replaced by a spinner while loading && !refreshing
GridRendered == ~(loading /\ ~refreshing)

\* line 354
SeatButtonDisabled(seat) == seat.status = "booked" \/ loading

\* line 279
RefreshDisabled == refreshing \/ loading

\* line 479
ModalRendered == showModal /\ selectedSeat # Null

----------------------------------------------------------------------------
(* Selection & Form Controller *)

\* handleSeatClick without line 91: the seat is selected, the modal stays shut
handleSeatClickNoModal(seat) ==
  IF seat.status # "available"
    THEN /\ alertMsg' = IF seat.selectedBy # Null THEN "already booked" ELSE "none"
         /\ UNCHANGED <<selectedSeat, showModal>>
    ELSE /\ selectedSeat' = Some(seat)
         /\ alertMsg' = "none"
         /\ UNCHANGED showModal

handleSeatClick(seat) ==
  IF seat.status # "available"
    THEN /\ alertMsg' = IF seat.selectedBy # Null THEN "already booked" ELSE "none"
         /\ UNCHANGED <<selectedSeat, showModal>>
    ELSE /\ selectedSeat' = Some(seat)
         /\ showModal' = TRUE
         /\ alertMsg' = "none"

\* a click on the button of seat i; a disabled button runs no handler
SeatButtonClick(i) ==
  /\ GridRendered
  /\ LET seatIndex == FindIndex(seats, i)
     IN /\ seatIndex # 0
        /\ IF SeatButtonDisabled(seats[seatIndex])
             THEN /\ UNCHANGED <<selectedSeat, showModal>>
                  /\ alertMsg' = "none"
             ELSE handleSeatClick(seats[seatIndex])
  /\ UNCHANGED <<seats, loading, refreshing, error, bookedUsers, formData>>
  /\ UNCHANGED async
  /\ UNCHANGED recon

\* an edit of one input of the modal; the inputs are disabled while loading
handleInputChange(name, value) ==
  /\ ModalRendered
  /\ ~loading
  /\ formData' = [formData EXCEPT ![name] = value]
  /\ alertMsg' = "none"
  /\ UNCHANGED <<seats, selectedSeat, showModal, loading, refreshing, error,
                 bookedUsers>>
  /\ UNCHANGED async
  /\ UNCHANGED recon

\* CloseModalBody without line 253: the selection is kept
CloseModalBodyKeepsSeat ==
  IF loading
    THEN UNCHANGED <<showModal, formData, selectedSeat, error>>
    ELSE /\ showModal' = FALSE
         /\ formData' = EmptyForm
         /\ error' = Null
         /\ UNCHANGED selectedSeat

\* lines 250-254
CloseModalBody ==
  IF loading
    THEN UNCHANGED <<showModal, formData, selectedSeat, error>>
    ELSE /\ showModal' = FALSE
         /\ formData' = EmptyForm
         /\ selectedSeat' = Null
         /\ error' = Null

\* a click on either close button of the modal
handleCloseModal ==
  /\ ModalRendered
  /\ CloseModalBody
  /\ alertMsg' = "none"
  /\ UNCHANGED <<seats, loading, refreshing, bookedUsers>>
  /\ UNCHANGED async
  /\ UNCHANGED recon

----------------------------------------------------------------------------
(* Data Fetch Controller *)

\* lines 95-105: fetchData(showRefresh) up to its await; the GET is task id
FetchStart(showRefresh, id) ==
  /\ IF showRefresh
       THEN refreshing' = TRUE /\ UNCHANGED loading
       ELSE loading' = TRUE /\ UNCHANGED refreshing
  /\ fetches' = fetches \cup {id}

\* FetchTry laying the bookings over the current seats, not a fresh set
FetchTryPatches(resp) ==
  /\ bookedUsers' = BookedUsersData(resp)
  /\ seats' = markBookedSeats(IF seats = <<>> THEN generateAllSeats ELSE seats,
                              BookedUsersData(resp))
  /\ error' = Null

\* lines 128-143: the rest of the try block for a response that decodes
FetchTry(resp) ==
  /\ bookedUsers' = BookedUsersData(resp)
  /\ seats' = markBookedSeats(generateAllSeats, BookedUsersData(resp))
  /\ error' = Null

\* FetchCatch without line 150
FetchCatchKeepsBookings ==
  /\ error' = Some(FetchErrorMsg)
  /\ seats' = generateAllSeats
  /\ UNCHANGED bookedUsers

\* lines 145-150
FetchCatch ==
  /\ error' = Some(FetchErrorMsg)
  /\ seats' = generateAllSeats
  /\ bookedUsers' = <<>>

\* FetchFinally without line 153
FetchFinallyKeepsRefreshing ==
  /\ loading' = FALSE
  /\ UNCHANGED refreshing

\* lines 151-154
FetchFinally ==
  /\ loading' = FALSE
  /\ refreshing' = FALSE

\* fetchData from its await to its end, for the GET k answered by resp
FetchDone(k, resp) ==
  /\ k \in fetches
  /\ fetches' = fetches \ {k}
  /\ IF FetchThrows(resp) THEN FetchCatch ELSE FetchTry(resp)
  /\ FetchFinally
  /\ alertMsg' = "none"
  /\ UNCHANGED <<selectedSeat, showModal, formData, bookings, timers>>
  /\ UNCHANGED recon

FetchComplete(k) == \E resp \in GetResponses : FetchDone(k, resp)

\* lines 245-247; the Refresh button is disabled while refreshing or loading
handleRefresh ==
  /\ ~RefreshDisabled
  /\ Pending < MaxAsync
  /\ FetchStart(TRUE, NextId)
  /\ alertMsg' = "none"
  /\ UNCHANGED <<seats, selectedSeat, showModal, error, bookedUsers, formData,
                 bookings, timers>>
  /\ UNCHANGED recon

\* the callback of line 235 runs: fetchData()
TimerFire(k) ==
  /\ k \in timers
  /\ timers' = timers \ {k}
  /\ FetchStart(FALSE, k)
  /\ alertMsg' = "none"
  /\ UNCHANGED <<seats, selectedSeat, showModal, error, bookedUsers, formData,
                 bookings>>
  /\ UNCHANGED recon

----------------------------------------------------------------------------
(* Booking Submission Controller *)

\* line 172 without its third test
FormIncompleteNoPhone(fd) == fd.name = "" \/ fd.email = ""

\* line 172
FormIncomplete(fd) == fd.name = "" \/ fd.email = "" \/ fd.phone = ""

\* what the continuation of handleConfirmBooking reads after its await
Closure == [seats |-> seats, selectedSeat |-> selectedSeat[1], formData |-> formData]

\* lines 172-202: handleConfirmBooking up to its await
ConfirmStart ==
  IF FormIncomplete(formData)
    THEN /\ alertMsg' = "Please fill all fields"
         /\ UNCHANGED <<loading, bookings>>
    ELSE IF selectedSeat = Null
      THEN /\ alertMsg' = "No seat selected"
           /\ UNCHANGED <<loading, bookings>>
      ELSE /\ loading' = TRUE
           /\ bookings' = bookings (+) SetToBag({Closure})
           /\ alertMsg' = "none"

\* a click on Book Now, which is disabled while loading
handleConfirmBooking ==
  /\ ModalRendered
  /\ ~loading
  /\ FormIncomplete(formData) \/ Pending < MaxAsync
  /\ ConfirmStart
  /\ UNCHANGED <<seats, selectedSeat, showModal, refreshing, error,
                 bookedUsers, formData, timers, fetches>>
  /\ UNCHANGED recon

\* lines 213-217: seats and selectedSeat are those of the closure
OptimisticSeats(c) ==
  [k \in DOMAIN c.seats |->
     IF c.seats[k].id = c.selectedSeat.id
       THEN [c.seats[k] EXCEPT !.status = "booked",
                               !.selectedBy = Some(c.formData.name)]
       ELSE c.seats[k]]

\* lines 185-192 and 221-225
NewBookedUser(c, resp) ==
  [_id |-> IF resp.id # Null THEN resp.id[1] ELSE "local",
   name |-> c.formData.name, email |-> c.formData.email,
   phone |-> c.formData.phone, payment |-> c.formData.payment,
   seatBooked |-> TRUE, seatId |-> c.selectedSeat.id]

\* the exits by exception before line 213: fetch rejects, !response.ok,
\* response.json() rejects
BookingThrows(resp) == resp.status # "ok" \/ resp.kind = "invalid"

\* BookingCatch closing the modal as the success path does
BookingCatchClosesModal ==
  /\ alertMsg' = "Failed to confirm booking"
  /\ showModal' = FALSE
  /\ UNCHANGED <<bookedUsers, formData, selectedSeat, timers>>

\* lines 237-239
BookingCatch ==
  /\ alertMsg' = "Failed to confirm booking"
  /\ UNCHANGED <<bookedUsers, showModal, formData, selectedSeat, timers>>

\* lines 213-235, for a body that is not null
BookingTry(c, resp) ==
  /\ seats' = OptimisticSeats(c)
  /\ bookedUsers' = Append(bookedUsers, NewBookedUser(c, resp))
  /\ showModal' = FALSE
  /\ formData' = EmptyForm
  /\ selectedSeat' = Null
  /\ alertMsg' = "Ticket booked successfully"
  /\ timers' = timers \cup {NextId}

\* lines 240-242
BookingFinally == loading' = FALSE

\* handleConfirmBooking from its await to its end, for the POST of closure
\* c answered by resp.  A body of JSON null passes line 218 and throws at
\* data._id.
BookingDone(c, resp) ==
  /\ BagIn(c, bookings)
  /\ bookings' = bookings (-) SetToBag({c})
  /\ IF BookingThrows(resp)
       THEN UNCHANGED seats /\ BookingCatch
       ELSE IF resp.kind = "null"
         THEN seats' = OptimisticSeats(c) /\ BookingCatch
         ELSE BookingTry(c, resp)
  /\ BookingFinally
  /\ UNCHANGED <<refreshing, error, fetches>>
  /\ UNCHANGED recon

BookingComplete(c) == \E resp \in PostResponses : BookingDone(c, resp)

----------------------------------------------------------------------------
(* The component *)

Next ==
  \/ \E i \in ClickSeatIds : SeatButtonClick(i)
  \/ \E name \in FieldNames : \E value \in FieldValues[name] :
       handleInputChange(name, value)
  \/ handleCloseModal
  \/ handleRefresh
  \/ handleConfirmBooking
  \/ \E k \in TaskIds : TimerFire(k)
  \/ \E k \in TaskIds : FetchComplete(k)
  \/ \E c \in BagToSet(bookings) : BookingComplete(c)

Spec == Init /\ [][Next]_vars

\* the timers respond: a pending timer fires
FairTimers == Spec /\ \A k \in TaskIds : WF_vars(TimerFire(k))

\* the network responds: a GET in flight is answered or fails
FairFetches == Spec /\ \A k \in TaskIds : WF_vars(FetchComplete(k))

----------------------------------------------------------------------------
(* markBookedSeats run on its own, statement by statement *)

\* the records it is given: confirmed or not, for seat 0, for seat 1, or for
\* a seat id no seat has
MarkRecords ==
  {User("r1", n, b, i) : n \in {"Bob", "Carol"}, b \in BOOLEAN, i \in {0, 99}}
    \cup {User("r1", "Bob", TRUE, 1)}

RECURSIVE ListsUpTo(_, _)
ListsUpTo(S, n) ==
  IF n = 0 THEN {<<>>}
  ELSE LET shorter == ListsUpTo(S, n - 1)
       IN shorter \cup {Append(l, x) : l \in {m \in shorter : Len(m) = n - 1}, x \in S}

MarkUserLists == ListsUpTo(MarkRecords, MaxUsers)

Taken(seat, name) == [seat EXCEPT !.status = "booked", !.selectedBy = Some(name)]

\* the seat arrays it is given: none, the canonical set, and two seats of
\* which one is already booked
MarkSeatInputs ==
  {<<>>, generateAllSeats,
   <<NewSeat(0), Taken(NewSeat(1), "Zed")>>,
   <<Taken(NewSeat(0), "Zed"), NewSeat(1)>>}

\* line 61: a call with its two arguments, in a component just constructed
MarkInit ==
  /\ seats = <<>>
  /\ selectedSeat = Null
  /\ showModal = FALSE
  /\ loading = TRUE
  /\ refreshing = FALSE
  /\ error = Null
  /\ bookedUsers = <<>>
  /\ formData = EmptyForm
  /\ bookings = EmptyBag
  /\ timers = {}
  /\ fetches = {}
  /\ alertMsg = "none"
  /\ allSeats \in MarkSeatInputs
  /\ users \in MarkUserLists
  /\ updatedSeats = <<>>
  /\ userIndex = 1
  /\ pc = "call"

\* line 62: const updatedSeats = [...allSeats]
MarkCopy ==
  /\ pc = "call"
  /\ updatedSeats' = allSeats
  /\ userIndex' = 1
  /\ pc' = "loop"
  /\ UNCHANGED <<allSeats, users>>
  /\ UNCHANGED <<cells, async, alertMsg>>

\* lines 64-75: one call of the forEach callback
MarkStep ==
  /\ pc = "loop"
  /\ userIndex <= Len(users)
  /\ updatedSeats' = MarkOne(updatedSeats, users[userIndex])
  /\ userIndex' = userIndex + 1
  /\ UNCHANGED <<allSeats, users, pc>>
  /\ UNCHANGED <<cells, async, alertMsg>>

\* line 77: return updatedSeats
MarkReturn ==
  /\ pc = "loop"
  /\ userIndex > Len(users)
  /\ pc' = "done"
  /\ UNCHANGED <<allSeats, users, updatedSeats, userIndex>>
  /\ UNCHANGED <<cells, async, alertMsg>>

MarkNext == MarkCopy \/ MarkStep \/ MarkReturn

MarkSpec == MarkInit /\ [][MarkNext]_vars

----------------------------------------------------------------------------
(* Vocabulary of the properties, stated without the operators above *)

InFlight == bookings # EmptyBag

\* the Seat Model Builder's output: Capacity seats, ids 0..Capacity-1 in
\* order, all available, no occupant
AllAvailable(ss) ==
  /\ Len(ss) = Capacity
  /\ \A k \in 1..Capacity :
       ss[k].id = k - 1 /\ ss[k].status = "available" /\ ss[k].selectedBy = Null

\* the confirmed records of a list, in order
ConfirmedOf(us) ==
  LET IsConfirmed(u) == u.seatBooked = TRUE IN SelectSeq(us, IsConfirmed)

\* ss is the canonical set with the confirmed records of recs laid over it:
\* a seat is booked iff a confirmed record names it, by the last such record
Reconciled(ss, recs) ==
  /\ Len(ss) = Capacity
  /\ \A k \in 1..Capacity :
       LET hits == {j \in DOMAIN recs : recs[j].seatBooked /\ recs[j].seatId = k - 1}
       IN /\ ss[k].id = k - 1
          /\ IF hits = {}
               THEN ss[k].status = "available" /\ ss[k].selectedBy = Null
               ELSE /\ ss[k].status = "booked"
                    /\ \E j \in hits : /\ \A i \in hits : i <= j
                                       /\ ss[k].selectedBy = <<recs[j].name>>

OkGet(body) == [status |-> "ok", body |-> body]

\* the seat of id i in ss is available / is booked by name
SeatAvailable(ss, i) ==
  \E k \in DOMAIN ss : ss[k].id = i /\ ss[k].status = "available"

SeatBookedBy(ss, i, name) ==
  \E k \in DOMAIN ss :
    ss[k].id = i /\ ss[k].status = "booked" /\ ss[k].selectedBy = <<name>>

----------------------------------------------------------------------------
(* C1: while a booking request is in flight (from the step that sends the  *)
(* POST to the step that handles its answer), under any interleaving with   *)
(* fetch cycles, a click on a close button of the modal changes none of     *)
(* showModal, selectedSeat and formData.                                    *)
C1_CloseRejectedWhileInFlight ==
  [][(InFlight /\ handleCloseModal)
       => UNCHANGED <<showModal, selectedSeat, formData>>]_vars

(* C2: when the booking request is answered by a non-success response (or   *)
(* not at all), the continuation of handleConfirmBooking raises the failure *)
(* alert and changes none of seats, bookedUsers, selectedSeat, formData and *)
(* showModal, schedules no re-fetch and sends no request; the step that     *)
(* sent the request changed none of them either.                            *)
C2_FailureLeavesState ==
  [][/\ \A c \in BagToSet(bookings) : \A resp \in PostResponses :
          (resp.status # "ok" /\ BookingDone(c, resp))
            => /\ alertMsg' = "Failed to confirm booking"
               /\ UNCHANGED <<seats, bookedUsers, selectedSeat, formData,
                              showModal, timers, fetches>>
     /\ handleConfirmBooking
          => UNCHANGED <<seats, bookedUsers, selectedSeat, formData,
                         showModal, timers, fetches>>]_vars

\* a booking has just failed: the modal is still open on the selected seat,
\* which is still available, the form still holds what was submitted
C2_Witness ==
  /\ alertMsg = "Failed to confirm booking"
  /\ showModal
  /\ selectedSeat # Null
  /\ SeatAvailable(seats, 5)
  /\ formData.name = "Alice"
  /\ timers = {}

(* C3: a click on Book Now with name, email or phone empty, or with no seat *)
(* selected, raises a validation alert, sends no request and changes no     *)
(* cell of the component state (the busy flag loading included).            *)
C3_InvalidSubmitNoEffect ==
  [][(/\ handleConfirmBooking
      /\ \/ formData.name = ""
         \/ formData.email = ""
         \/ formData.phone = ""
         \/ selectedSeat = Null)
       => /\ alertMsg' \in {"Please fill all fields", "No seat selected"}
          /\ UNCHANGED cells
          /\ UNCHANGED async]_vars

\* a submission with name and email filled and phone empty was refused
C3_Witness ==
  /\ alertMsg = "Please fill all fields"
  /\ formData.name # ""
  /\ formData.email # ""
  /\ formData.phone = ""
  /\ ~loading
  /\ bookings = EmptyBag

(* C4: when the booking request for seat s, submitted with name n, is       *)
(* answered by a success response (a 2xx status, whatever its body), the    *)
(* resulting state has seat s booked with occupant n, bookedUsers extended  *)
(* by exactly one record, for seat s and name n, the modal closed, the      *)
(* selection cleared, the form reset to its defaults, and one more timer    *)
(* pending.                                                                 *)
C4_SuccessEffects ==
  [][\A c \in BagToSet(bookings) : \A resp \in PostResponses :
       (resp.status = "ok" /\ BookingDone(c, resp))
         => LET s == c.selectedSeat.id
                n == c.formData.name
            IN /\ SeatBookedBy(seats', s, n)
               /\ Len(bookedUsers') = Len(bookedUsers) + 1
               /\ SubSeq(bookedUsers', 1, Len(bookedUsers)) = bookedUsers
               /\ bookedUsers'[Len(bookedUsers')].seatId = s
               /\ bookedUsers'[Len(bookedUsers')].name = n
               /\ bookedUsers'[Len(bookedUsers')].seatBooked = TRUE
               /\ showModal' = FALSE
               /\ selectedSeat' = Null
               /\ formData' = [name |-> "", email |-> "", phone |-> "",
                               payment |-> "card"]
               /\ timers \subseteq timers'
               /\ Cardinality(timers') = Cardinality(timers) + 1]_vars

----------------------------------------------------------------------------
(* C5: the re-fetch a successful submission scheduled eventually runs (a    *)
(* pending timer fires), and a fetch cycle answered by a list of bookings,  *)
(* in any of the three accepted shapes, leaves the seat state equal to the  *)
(* canonical set reconciled with the answer's confirmed bookings and the    *)
(* booking list equal to those confirmed bookings: nothing of an optimistic *)
(* update remains.                                                          *)
C5_RefetchSupersedes ==
  /\ \A k \in TaskIds : (k \in timers) ~> (k \in fetches)
  /\ [][\A k \in fetches \ fetches' : \A us \in UserLists :
          \A body \in {JArray(Wrap(us)),
                       JObject(Some(JArray(Wrap(us))), Null),
                       JObject(Null, Some(JArray(Wrap(us))))} :
            FetchDone(k, OkGet(body))
              => /\ Reconciled(seats', us)
                 /\ bookedUsers' = ConfirmedOf(us)]_vars

\* the optimistic record of Alice's booking is in the booking list, and the
\* re-fetch her submission scheduled is running: its timer has fired and
\* its GET is in flight
C5_Witness ==
  /\ \E j \in DOMAIN bookedUsers : bookedUsers[j].name = "Alice"
  /\ SeatBookedBy(seats, 5, "Alice")
  /\ timers = {}
  /\ bookings = EmptyBag
  /\ fetches # {}
  /\ loading

(* C6: every fetch cycle that is started completes (its GET is answered or  *)
(* fails), and the step that completes it, by whichever exit, leaves both   *)
(* loading and refreshing cleared.                                          *)
C6_FetchCompletesAndClears ==
  /\ \A k \in TaskIds : (k \in fetches) ~> (k \notin fetches)
  /\ [][\A k \in TaskIds :
          (k \in fetches /\ k \notin fetches')
            => (loading' = FALSE /\ refreshing' = FALSE)]_vars

\* a fetch cycle has completed by its success exit and nothing is running:
\* the seats are loaded, no error is shown, both indicators are down
C6_Witness ==
  /\ seats # <<>>
  /\ error = Null
  /\ fetches = {}
  /\ timers = {}
  /\ bookings = EmptyBag
  /\ ~loading
  /\ ~refreshing

(* C7: a fetch cycle whose GET fails in transport, is answered by a non-OK  *)
(* status, or is answered by a body that is not JSON, leaves a non-null     *)
(* error, the Seat Model Builder's output as the seat state and an empty    *)
(* booking list, and starts no request and no timer.                        *)
C7_FetchFailureFallsBack ==
  [][\A k \in TaskIds :
       \A resp \in {[status |-> "network_error", body |-> NoBody],
                    [status |-> "http_error", body |-> NoBody],
                    OkGet(JPrim("invalid"))} :
         FetchDone(k, resp)
           => /\ error' # Null
              /\ AllAvailable(seats')
              /\ bookedUsers' = <<>>
              /\ fetches' = fetches \ {k}
              /\ UNCHANGED <<timers, bookings>>]_vars

\* a fetch cycle has failed: the error is shown over the fallback seat set
C7_Witness ==
  /\ error = Some(FetchErrorMsg)
  /\ AllAvailable(seats)
  /\ bookedUsers = <<>>
  /\ fetches = {}
  /\ ~loading

(* C8: a fetch cycle answered by a body that is neither a list, nor an      *)
(* object with a list under data, nor an object with a list under users     *)
(* (an object with other keys, a number, a string, JSON null) leaves a null *)
(* error, the all-available seat set and an empty booking list.             *)
C8_OtherShapeIsEmptyList ==
  [][\A k \in TaskIds : \A body \in OtherBodies :
       FetchDone(k, OkGet(body))
         => /\ error' = Null
            /\ AllAvailable(seats')
            /\ bookedUsers' = <<>>]_vars

(* C9: the flag that marks a submission as in flight (loading, set at line  *)
(* 182 and cleared at line 241) is raised in every state in which a booking *)
(* request is in flight, and no start or completion of a fetch cycle        *)
(* changes it while one is.                                                 *)
C9_IndependentBusyFlags ==
  [][/\ bookings' # EmptyBag => loading' = TRUE
     /\ \A k \in TaskIds :
          (InFlight /\ (k \in fetches) # (k \in fetches'))
            => loading' = loading]_vars

----------------------------------------------------------------------------
(* C11: markBookedSeats(allSeats, users) returns an array of the length of  *)
(* allSeats in which every seat named by a record of users with seatBooked  *)
(* true is that seat made booked, its occupant the name of the LAST such    *)
(* record, and every other seat is the seat of allSeats unchanged (records  *)
(* with seatBooked false or with a seatId no seat has change nothing); it   *)
(* is the value the operator the fetch cycle applies computes; and no       *)
(* statement of the function writes allSeats.                               *)
C11_LastConfirmedRecordWins ==
  /\ [](pc = "done"
          => /\ Len(updatedSeats) = Len(allSeats)
             /\ \A k \in DOMAIN allSeats :
                  LET hits == {j \in DOMAIN users :
                                 /\ users[j].seatBooked = TRUE
                                 /\ users[j].seatId = allSeats[k].id}
                  IN IF hits = {}
                       THEN updatedSeats[k] = allSeats[k]
                       ELSE \E j \in hits :
                              /\ \A i \in hits : i <= j
                              /\ updatedSeats[k] =
                                   [allSeats[k] EXCEPT
                                      !.status = "booked",
                                      !.selectedBy = <<users[j].name>>]
             /\ updatedSeats = markBookedSeats(allSeats, users))
  /\ [][pc # "idle" => allSeats' = allSeats]_vars

\* the function has returned from the canonical set and three records: Bob
\* then Carol confirmed for seat 0, then an unconfirmed record; seat 0 is
\* Carol's and the caller's array is still all available
C11_Witness ==
  /\ pc = "done"
  /\ allSeats = generateAllSeats
  /\ Len(users) = 3
  /\ users[1].seatBooked /\ users[1].seatId = 0 /\ users[1].name = "Bob"
  /\ users[2].seatBooked /\ users[2].seatId = 0 /\ users[2].name = "Carol"
  /\ ~users[3].seatBooked /\ users[3].seatId = 0 /\ users[3].name = "Bob"
  /\ updatedSeats[1].status = "booked"
  /\ updatedSeats[1].selectedBy = <<"Carol">>
  /\ updatedSeats[2].status = "available"

----------------------------------------------------------------------------
(* C12: the step that applies the optimistic update of a submission         *)
(* answered by a success response with a JSON object leaves every seat      *)
(* other than the selected one as it is in the seat state at that moment    *)
(* (same length, same status, same occupant), whatever fetch cycles have    *)
(* written while the booking request was in flight.                         *)
C12_OptimisticUpdateTouchesOneSeat ==
  [][\A c \in BagToSet(bookings) : \A resp \in PostResponses :
       (resp.status = "ok" /\ resp.kind = "object" /\ BookingDone(c, resp))
         => /\ Len(seats') = Len(seats)
            /\ \A k \in DOMAIN seats :
                 seats[k].id # c.selectedSeat.id
                   => /\ seats'[k].status = seats[k].status
                      /\ seats'[k].selectedBy = seats[k].selectedBy]_vars

----------------------------------------------------------------------------
(* C13: in every reachable state in which the booking modal is open, the    *)
(* seat state holds the pending selected seat, by its id, as available.     *)
C13_ModalSeatAvailable ==
  (showModal /\ selectedSeat # Null)
    => SeatAvailable(seats, selectedSeat[1].id)

----------------------------------------------------------------------------
(* C14: in every reachable state showModal is true exactly when             *)
(* selectedSeat is not null, and a step that changes either of them is a    *)
(* seat click, a click on a close button of the modal, or the handling of   *)
(* a booking request answered by a 2xx response: a fetch cycle, a form      *)
(* edit, a refresh, a timer, an invalid submission, the sending of a        *)
(* booking request and a failed one change neither.                         *)
C14_ModalIffSelection ==
  /\ [](showModal <=> selectedSeat # Null)
  /\ [][(showModal' # showModal \/ selectedSeat' # selectedSeat)
          => \/ \E i \in ClickSeatIds : SeatButtonClick(i)
             \/ handleCloseModal
             \/ \E c \in BagToSet(bookings) : \E resp \in PostResponses :
                  resp.status = "ok" /\ BookingDone(c, resp)]_vars

\* a submission has failed while a refresh is in flight: the modal is still
\* open on its selection, over the form as submitted
C14_Witness ==
  /\ showModal
  /\ selectedSeat # Null
  /\ alertMsg = "Failed to confirm booking"
  /\ formData.name = "Alice"
  /\ fetches # {}
  /\ refreshing

=============================================================================
